---- MODULE Spec2Model ----
(***************************************************************************)
(* LordsLab (src/index.tsx): the local profile store, the insight          *)
(* requester, the view-state controller, the PCM codec and the Gemini Live *)
(* audio bridge, as one state machine.  Time is counted in whole ticks of  *)
(* the output AudioContext clock, buffer durations in the same unit.       *)
(***************************************************************************)
EXTENDS Integers, Sequences, FiniteSets

\* ------------------------------------------------------------------ bounds
MaxSessions == 2     \* startVoiceLab calls in one run
SchedSessions == 1   \* startVoiceLab calls in one run of the scheduling specification
MaxChunks   == 2     \* inbound messages that carry audio, in one run
MaxTexts    == 5     \* inbound messages that carry a transcription, in one run
MaxDur      == 2     \* longest buffer.duration, in clock ticks
MaxTime     == 2     \* the output clock is observed up to this value
MaxRequests == 2     \* generateInsight calls in one run
MaxFrames   == 1     \* microphone frames sent per session
MaxLogins   == 2     \* logins counted per jersey (the count stops there, logins do not)
SubSteps    == 4     \* a sample is n / (SubSteps * 32768): resolution below one LSB
Edge        == 12    \* samples are taken this close to -1, 0 and +1

\* ------------------------------------------------------- program constants
PCMScale    == 32768 \* encodePCM multiplies, decodePCM divides by it
Int16Mod    == 65536 \* an Int16Array element is kept modulo 2^16
Window      == 3     \* prev.slice(-3): entries kept before the new one is appended

VARIABLES
    API_KEY,             \* BOOLEAN: the credential is a non-empty string
    storage,             \* localStorage[STORAGE_KEYS.USERS]: [kind, list]
    screen, user, insight, loading, transcripts,   \* App's useState cells
    requests,            \* generateContent calls in flight
    nextStartTime, inputAudioContext, outputAudioContext, audioSources, micStream,
    closedCtx,           \* the AudioContext pairs close() has been called on
    stoppedMic,          \* the MediaStreams whose tracks have been stopped
    currentTime,         \* outputAudioContext.currentTime
    sessions,            \* one record per startVoiceLab call
    nSessions,           \* startVoiceLab calls so far
    microtasks,          \* onmessage handlers suspended at `await decodePCM`
    nChunks, nTexts,     \* inbound messages so far (bounded by MaxChunks, MaxTexts)
    pcm,                 \* the codec's round trip: [pc, sample, int16, decoded]
    lastOp,              \* the handler that ran last, and how it ended
    lastStop,            \* what the last stopVoiceLab call met, and whether it threw
    returned,            \* jersey -> the records handleLogin has passed to setUser,
                         \* and how many times it has
    uncaught             \* an exception escaped a handler

storeVars == <<storage, user, returned>>
uiVars    == <<screen, transcripts>>
insightVars == <<insight, loading, requests>>
audioVars == <<nextStartTime, inputAudioContext, outputAudioContext, audioSources,
               micStream, closedCtx, stoppedMic, currentTime, lastStop>>
sessVars  == <<sessions, nSessions, microtasks, nChunks, nTexts>>
vars == <<API_KEY, storage, screen, user, insight, loading, transcripts, requests,
          nextStartTime, inputAudioContext, outputAudioContext, audioSources,
          micStream, closedCtx, stoppedMic, currentTime, sessions, nSessions,
          microtasks, nChunks, nTexts, pcm, lastOp, lastStop, returned, uncaught>>

Max(a, b) == IF a >= b THEN a ELSE b
Abs(a)    == IF a >= 0 THEN a ELSE -a

\* ============================================================ profile store
Names   == {"", "Smith", "Jones"}
Jerseys == {"", "12", "7"}
Roles   == {"ATHLETE", "COACH"}
NoUser  == [name |-> "", jersey |-> "", role |-> "", points |-> -1, streak |-> -1]

NewProfile(name, jersey, role) ==
    [name |-> name, jersey |-> jersey, role |-> role, points |-> 0, streak |-> 1]

Profiles == {NewProfile(n, j, r) : n \in Names \ {""}, j \in Jerseys \ {""}, r \in Roles}

UniqueJerseys(list) ==
    \A a, b \in 1..Len(list) : list[a].jersey = list[b].jersey => a = b

\* What the key can hold when the page loads: nothing, text JSON.parse rejects, JSON
\* that is no array (null, {}, 5, "x"), or a list saveStorage wrote earlier.
InitialBlobs ==
    {[kind |-> k, list |-> <<>>] : k \in {"absent", "invalid", "nonlist"}}
    \cup {[kind |-> "list", list |-> <<>>]}
    \cup {[kind |-> "list", list |-> <<p>>] : p \in Profiles}
    \cup {[kind |-> "list", list |-> <<pq[1], pq[2]>>] :
              pq \in {x \in Profiles \X Profiles : x[1].jersey # x[2].jersey}}

\* getStorage: JSON.parse(localStorage.getItem(k) || '[]'), [] when parse throws.
\* isList is FALSE when the parsed value is no array.
getStorage(blob) ==
    CASE blob.kind = "absent"  -> [threw |-> FALSE, isList |-> TRUE, list |-> <<>>]
      [] blob.kind = "invalid" -> [threw |-> FALSE, isList |-> TRUE, list |-> <<>>]
      [] blob.kind = "nonlist" -> [threw |-> FALSE, isList |-> FALSE, list |-> <<>>]
      [] OTHER                 -> [threw |-> FALSE, isList |-> TRUE, list |-> blob.list]

\* saveStorage: the whole list, stringified, replaces the key.
saveStorage(list) == [kind |-> "list", list |-> list]

\* users.find(curr => curr.jersey === jersey): index of the first match, 0 if none.
FindByName(users, name, jersey) ==
    LET hits == {i \in 1..Len(users) : users[i].name = name}
    IN  IF hits = {} THEN 0 ELSE CHOOSE i \in hits : \A k \in hits : i <= k

Find(users, name, jersey) ==
    LET hits == {i \in 1..Len(users) : users[i].jersey = jersey}
    IN  IF hits = {} THEN 0 ELSE CHOOSE i \in hits : \A k \in hits : i <= k

\* handleLogin.  users.find on a value that is no array is a TypeError: the handler
\* is left before anything is saved or set.
handleLogin(name, jersey, role) ==
    LET got   == getStorage(storage)
        users == got.list
        at    == Find(users, name, jersey)
        u     == IF at = 0 THEN NewProfile(name, jersey, role) ELSE users[at]
    IN  IF got.threw \/ ~got.isList
        THEN /\ uncaught' = TRUE
             /\ lastOp' = "login:threw"
             /\ UNCHANGED <<storage, user, returned, screen>>
        ELSE /\ storage' = IF at = 0 THEN saveStorage(Append(users, u)) ELSE storage
             /\ user' = u
             /\ returned' = [returned EXCEPT ![jersey].recs = @ \cup {u},
                                             ![jersey].calls = IF @ < MaxLogins THEN @ + 1 ELSE @]
             /\ screen' = IF role = "COACH" THEN "COACH" ELSE "ATHLETE"
             /\ lastOp' = "login"
             /\ UNCHANGED uncaught

\* The login button's onClick: if(n && j) handleLogin(n, j, r).
LoginClick(n, j, r) ==
    /\ screen = "LOGIN"
    /\ IF n # "" /\ j # ""
       THEN handleLogin(n, j, r)
       ELSE /\ lastOp' = "login:ignored"
            /\ UNCHANGED <<storage, user, returned, screen, uncaught>>
    /\ UNCHANGED <<API_KEY, transcripts, pcm>>
    /\ UNCHANGED insightVars /\ UNCHANGED audioVars /\ UNCHANGED sessVars

\* The logout buttons of the ATHLETE and COACH screens: setScreen('LOGIN').
Logout ==
    /\ \/ screen = "ATHLETE" /\ user # NoUser
       \/ screen = "COACH"
    /\ screen' = "LOGIN"
    /\ lastOp' = "logout"
    /\ UNCHANGED <<API_KEY, transcripts, pcm, uncaught>>
    /\ UNCHANGED storeVars /\ UNCHANGED insightVars
    /\ UNCHANGED audioVars /\ UNCHANGED sessVars

\* The COACH screen's leaderboard: getStorage(...).length > 0 ? getStorage(...).map(...)
Leaderboard(blob) == getStorage(blob)

\* ========================================================= insight requester
Fallbacks == {"System Error: API_KEY missing.", "Hold the standard.",
              "Winning is a habit. So is losing. Choose yours."}
Generated == {"Own the huddle."}
Outcomes  == {"text", "notext", "reject"}

\* generateInsight up to `await ai.models.generateContent(...)`.  The button is
\* rendered while insight is empty.
GenerateInsight ==
    /\ screen = "ATHLETE" /\ user # NoUser /\ insight = ""
    /\ requests < MaxRequests
    /\ IF ~API_KEY
       THEN /\ insight' = "System Error: API_KEY missing."
            /\ lastOp' = "insight:nokey"
            /\ UNCHANGED <<loading, requests>>
       ELSE /\ loading' = TRUE
            /\ requests' = requests + 1
            /\ lastOp' = "insight:sent"
            /\ UNCHANGED insight
    /\ UNCHANGED <<API_KEY, screen, transcripts, pcm, uncaught>>
    /\ UNCHANGED storeVars /\ UNCHANGED audioVars /\ UNCHANGED sessVars

\* The three ways the awaited call ends, as the strings setInsight receives.
InsightTextNoFallback(outcome, text) ==
    CASE outcome = "text"   -> text
      [] outcome = "notext" -> ""
      [] OTHER              -> "Winning is a habit. So is losing. Choose yours."

InsightText(outcome, text) ==
    CASE outcome = "text"   -> text
      [] outcome = "notext" -> "Hold the standard."
      [] OTHER              -> "Winning is a habit. So is losing. Choose yours."

\* generateInsight from the await on: try / catch / finally.
InsightResponse(outcome, text) ==
    /\ requests > 0
    /\ insight' = InsightText(outcome, text)
    /\ loading' = FALSE
    /\ requests' = requests - 1
    /\ lastOp' = "insight:" \o outcome
    /\ UNCHANGED <<API_KEY, screen, transcripts, pcm, uncaught>>
    /\ UNCHANGED storeVars /\ UNCHANGED audioVars /\ UNCHANGED sessVars

\* ================================================================ PCM codec
\* A sample is the rational n / (SubSteps * PCMScale); data[i] * 32768 is n / SubSteps.
FullScale == SubSteps * PCMScale
Samples ==
    {n \in -Edge..Edge : TRUE}
    \cup {n \in (FullScale - Edge)..FullScale : TRUE}
    \cup {n \in (-FullScale)..(-FullScale + Edge) : TRUE}

\* Truncation toward zero of n / d (d > 0), as a typed-array store does before wrapping.
Trunc(n, d) == IF n >= 0 THEN n \div d ELSE -((-n) \div d)

\* Storing a number into an Int16Array element: ToInt16, modulo 2^16 into -32768..32767.
ToInt16(v) ==
    LET m == v % Int16Mod
    IN  IF m >= Int16Mod \div 2 THEN m - Int16Mod ELSE m

\* encodePCM, one sample: int16[i] = data[i] * 32768.
encodePCM(n) == ToInt16(Trunc(n, SubSteps))

\* decodePCM, one sample: data16[i] / 32768.0, as a numerator over FullScale.
decodePCM(i16) == i16 * SubSteps

EncodeSample ==
    /\ pcm.pc = "raw"
    /\ pcm' = [pcm EXCEPT !.pc = "encoded", !.int16 = encodePCM(pcm.sample)]
    /\ UNCHANGED <<API_KEY, lastOp, uncaught>>
    /\ UNCHANGED storeVars /\ UNCHANGED uiVars /\ UNCHANGED insightVars
    /\ UNCHANGED audioVars /\ UNCHANGED sessVars

DecodeSample ==
    /\ pcm.pc = "encoded"
    /\ pcm' = [pcm EXCEPT !.pc = "decoded", !.decoded = decodePCM(pcm.int16)]
    /\ UNCHANGED <<API_KEY, lastOp, uncaught>>
    /\ UNCHANGED storeVars /\ UNCHANGED uiVars /\ UNCHANGED insightVars
    /\ UNCHANGED audioVars /\ UNCHANGED sessVars

\* ============================================================= audio bridge
\* An AudioContext pair and a MediaStream are named by the number of the session
\* that created them; 0 is null.
NoSession == [st |-> "idle", ends |-> {}, connected |-> FALSE,
              processor |-> 0, sent |-> 0]
NoStop == [sources |-> 0, ended |-> 0, ctx |-> "none", again |-> FALSE, threw |-> FALSE]
StopOps == {"toggleVoice:stop", "onEnd:key", "onEnd:mic", "onEnd:uplink", "onEnd:close"}

CtxState(c) == IF c = 0 THEN "absent" ELSE IF c \in closedCtx THEN "closed" ELSE "open"
MicState(m) == IF m = 0 THEN "absent" ELSE IF m \in stoppedMic THEN "stopped" ELSE "live"

\* A source whose buffer has played to its end on the output clock.
Ended(src) == currentTime >= src.start + src.dur

\* s.stop() on a source that has already ended throws InvalidStateError on the
\* platforms that forbid it (legacy), and does nothing on the others.
SourceStopThrows(src, legacy) == legacy /\ Ended(src)

\* audioSources.forEach(s => { try { s.stop(); } catch {} }): TRUE when an exception
\* leaves the loop.
StopSourcesNoTry(srcs, legacy) ==
    \E i \in 1..Len(srcs) : SourceStopThrows(srcs[i], legacy)

StopSources(srcs, legacy) ==
    LET thrown == {i \in 1..Len(srcs) : SourceStopThrows(srcs[i], legacy)}
        caught == thrown
    IN  thrown \ caught # {}

\* audioSources.clear()
Clear(srcs) == <<>>

\* stopVoiceLab.  close() on a closed context returns a rejected promise that
\* .catch(() => {}) takes; the globals keep pointing at the closed objects.
stopVoiceLab(legacy) ==
    /\ stoppedMic' = IF micStream # 0 THEN stoppedMic \cup {micStream} ELSE stoppedMic
    /\ closedCtx' = closedCtx \cup ({inputAudioContext, outputAudioContext} \ {0})
    /\ audioSources' = Clear(audioSources)
    /\ nextStartTime' = 0
    /\ lastStop' = [sources |-> Len(audioSources),
                    ended |-> Cardinality({i \in 1..Len(audioSources) :
                                             Ended(audioSources[i])}),
                    ctx |-> CtxState(outputAudioContext),
                    again |-> lastOp \in StopOps,
                    threw |-> StopSources(audioSources, legacy)]
    /\ UNCHANGED <<inputAudioContext, outputAudioContext, micStream, currentTime>>

\* toggleVoice's second argument: (err) => { if (err) alert(err); setScreen('ATHLETE');
\* stopVoiceLab(); }, called by session s.
onEndNoStop(s, cause, legacy) ==
    /\ screen' = "ATHLETE"
    /\ lastOp' = "onEnd:" \o cause
    /\ UNCHANGED audioVars

onEnd(s, cause, legacy) ==
    /\ screen' = "ATHLETE"
    /\ stopVoiceLab(legacy)
    /\ lastOp' = "onEnd:" \o cause

\* toggleVoice, with the synchronous part of startVoiceLab (up to the await of
\* getUserMedia) when it starts a session.
ToggleVoice(limit) ==
    /\ microtasks = <<>>
    /\ \/ /\ screen = "VOICE"
          /\ \E legacy \in BOOLEAN : stopVoiceLab(legacy)
          /\ screen' = "ATHLETE"
          /\ lastOp' = "toggleVoice:stop"
          /\ UNCHANGED <<transcripts, sessions, nSessions>>
       \/ /\ screen = "ATHLETE" /\ user # NoUser
          /\ nSessions < limit
          /\ transcripts' = <<>>
          /\ nSessions' = nSessions + 1
          /\ LET s == nSessions + 1 IN
             IF ~API_KEY
             THEN /\ sessions' = [sessions EXCEPT ![s].st = "nokey",
                                                  ![s].ends = @ \cup {"key"}]
                  /\ \E legacy \in BOOLEAN : onEnd(s, "key", legacy)
             ELSE /\ sessions' = [sessions EXCEPT ![s].st = "awaitMic"]
                  /\ inputAudioContext' = s
                  /\ outputAudioContext' = s
                  /\ currentTime' = 0
                  /\ screen' = "VOICE"
                  /\ lastOp' = "toggleVoice:start"
                  /\ UNCHANGED <<nextStartTime, audioSources, micStream, closedCtx,
                                 stoppedMic, lastStop>>
    /\ UNCHANGED <<API_KEY, insight, loading, requests, microtasks, nChunks, nTexts,
                   pcm, uncaught>>
    /\ UNCHANGED storeVars

\* getUserMedia resolves: micStream is set and ai.live.connect is called.
MicGranted(s) ==
    /\ microtasks = <<>>
    /\ sessions[s].st = "awaitMic"
    /\ micStream' = s
    /\ sessions' = [sessions EXCEPT ![s].st = "connecting", ![s].connected = TRUE]
    /\ lastOp' = "event"
    /\ UNCHANGED <<nextStartTime, inputAudioContext, outputAudioContext, audioSources,
                   closedCtx, stoppedMic, currentTime, lastStop>>
    /\ UNCHANGED <<API_KEY, nSessions, microtasks, nChunks, nTexts, pcm, uncaught>>
    /\ UNCHANGED storeVars /\ UNCHANGED uiVars /\ UNCHANGED insightVars

\* getUserMedia rejects: return onEnd("Microphone access denied.").
MicDenied(s) ==
    /\ microtasks = <<>>
    /\ sessions[s].st = "awaitMic"
    /\ sessions' = [sessions EXCEPT ![s].st = "denied",
                                    ![s].ends = @ \cup {"mic"}]
    /\ \E legacy \in BOOLEAN : onEnd(s, "mic", legacy)
    /\ UNCHANGED <<API_KEY, transcripts, nSessions, microtasks, nChunks, nTexts, pcm,
                   uncaught>>
    /\ UNCHANGED storeVars /\ UNCHANGED insightVars

\* callbacks.onopen: the script processor is attached to the context the global
\* names at that moment.  createMediaStreamSource on a closed context throws on
\* some platforms (strict); then nothing is attached.
OnOpen(s) ==
    /\ microtasks = <<>>
    /\ sessions[s].st = "connecting"
    /\ \E strict \in BOOLEAN :
          IF inputAudioContext = 0 \/ micStream = 0
          THEN /\ sessions' = [sessions EXCEPT ![s].st = "open"]
               /\ UNCHANGED uncaught
          ELSE IF strict /\ inputAudioContext \in closedCtx
          THEN /\ sessions' = [sessions EXCEPT ![s].st = "open"]
               /\ uncaught' = TRUE
          ELSE /\ sessions' = [sessions EXCEPT ![s].st = "open",
                                               ![s].processor = inputAudioContext]
               /\ UNCHANGED uncaught
    /\ lastOp' = "event"
    /\ UNCHANGED <<API_KEY, nSessions, microtasks, nChunks, nTexts, pcm>>
    /\ UNCHANGED storeVars /\ UNCHANGED uiVars /\ UNCHANGED insightVars
    /\ UNCHANGED audioVars

\* processor.onaudioprocess: a frame is encoded and handed to sendRealtimeInput.
\* The processor runs while the context it was created in is running.
OnAudioProcess(s) ==
    /\ microtasks = <<>>
    /\ sessions[s].st = "open"
    /\ sessions[s].processor # 0 /\ sessions[s].processor \notin closedCtx
    /\ sessions[s].sent < MaxFrames
    /\ sessions' = [sessions EXCEPT ![s].sent = @ + 1]
    /\ lastOp' = "event"
    /\ UNCHANGED <<API_KEY, nSessions, microtasks, nChunks, nTexts, pcm, uncaught>>
    /\ UNCHANGED storeVars /\ UNCHANGED uiVars /\ UNCHANGED insightVars
    /\ UNCHANGED audioVars

\* (t, isU) => setTranscripts(prev => [...prev.slice(-3), { t, isU }]).  The text is
\* named by its arrival number; from is the session whose callback delivered it.
LastN(seq, n) ==
    IF Len(seq) <= n THEN seq ELSE SubSeq(seq, Len(seq) - n + 1, Len(seq))

onTranscription(prev, entry) == Append(LastN(prev, Window), entry)

\* nextStartTime = Math.max(nextStartTime, outputAudioContext.currentTime)
WatermarkNoMax(nst, now) == nst

Watermark(nst, now) == Max(nst, now)

\* callbacks.onmessage up to `await decodePCM(...)`.  tr is the transcription the
\* message carries ("none", "output", "input"), d the duration of its audio (0: none).
\* The rest of the handler is queued behind the await.
TrKinds == {"none", "output", "input"}
OnMessage(s, tr, d) ==
    /\ sessions[s].st = "open"
    /\ tr # "none" \/ d > 0
    /\ IF tr # "none"
       THEN /\ nTexts < MaxTexts
            /\ nTexts' = nTexts + 1
            /\ transcripts' = onTranscription(transcripts,
                   [t |-> nTexts + 1, isU |-> (tr = "input"), from |-> s])
       ELSE UNCHANGED <<nTexts, transcripts>>
    /\ IF d > 0
       THEN /\ nChunks < MaxChunks
            /\ nChunks' = nChunks + 1
            /\ IF outputAudioContext # 0
               THEN /\ nextStartTime' = Watermark(nextStartTime, currentTime)
                    /\ microtasks' = Append(microtasks,
                           [n |-> nChunks + 1, dur |-> d, now |-> currentTime])
               ELSE UNCHANGED <<nextStartTime, microtasks>>
       ELSE UNCHANGED <<nChunks, nextStartTime, microtasks>>
    /\ lastOp' = "event"
    /\ UNCHANGED <<API_KEY, screen, sessions, nSessions, pcm, uncaught>>
    /\ UNCHANGED <<inputAudioContext, outputAudioContext, audioSources, micStream,
                   closedCtx, stoppedMic, currentTime, lastStop>>
    /\ UNCHANGED storeVars /\ UNCHANGED insightVars

\* The microtask queue is first in, first out.
NextTaskLast(q) == Len(q)

NextTask(q) == 1

Without(q, i) == [k \in 1..(Len(q) - 1) |-> IF k < i THEN q[k] ELSE q[k + 1]]

\* callbacks.onmessage after the await: source.start(nextStartTime);
\* nextStartTime += buffer.duration; audioSources.add(source).
OnMessageResume ==
    /\ microtasks # <<>>
    /\ LET i == NextTask(microtasks)
           h == microtasks[i]
       IN  /\ audioSources' = Append(audioSources,
                   [n |-> h.n, start |-> nextStartTime, dur |-> h.dur,
                    now |-> h.now, at |-> currentTime])
           /\ nextStartTime' = nextStartTime + h.dur
           /\ microtasks' = Without(microtasks, i)
    /\ lastOp' = "event"
    /\ UNCHANGED <<API_KEY, sessions, nSessions, nChunks, nTexts, pcm, uncaught>>
    /\ UNCHANGED <<inputAudioContext, outputAudioContext, micStream, closedCtx,
                   stoppedMic, currentTime, lastStop>>
    /\ UNCHANGED storeVars /\ UNCHANGED uiVars /\ UNCHANGED insightVars

\* callbacks.onerror: (e) => onEnd("Uplink lost.")
OnError(s) ==
    /\ microtasks = <<>>
    /\ sessions[s].st \in {"connecting", "open"}
    /\ sessions' = [sessions EXCEPT ![s].st = "errored",
                                    ![s].ends = @ \cup {"uplink"}]
    /\ \E legacy \in BOOLEAN : onEnd(s, "uplink", legacy)
    /\ UNCHANGED <<API_KEY, transcripts, nSessions, microtasks, nChunks, nTexts, pcm,
                   uncaught>>
    /\ UNCHANGED storeVars /\ UNCHANGED insightVars

\* callbacks.onclose: () => onEnd()
OnClose(s) ==
    /\ microtasks = <<>>
    /\ sessions[s].st \in {"connecting", "open", "errored"}
    /\ sessions' = [sessions EXCEPT ![s].st = "closed", ![s].ends = @ \cup {"close"}]
    /\ \E legacy \in BOOLEAN : onEnd(s, "close", legacy)
    /\ UNCHANGED <<API_KEY, transcripts, nSessions, microtasks, nChunks, nTexts, pcm,
                   uncaught>>
    /\ UNCHANGED storeVars /\ UNCHANGED insightVars

\* The audio clock of the output context advances while that context is running;
\* the audio thread moves it whatever the handlers are doing.
Tick ==
    /\ outputAudioContext # 0 /\ outputAudioContext \notin closedCtx
    /\ currentTime < MaxTime
    /\ currentTime' = currentTime + 1
    /\ UNCHANGED <<nextStartTime, inputAudioContext, outputAudioContext, audioSources,
                   micStream, closedCtx, stoppedMic, lastStop>>
    /\ UNCHANGED <<API_KEY, pcm, lastOp, uncaught>>
    /\ UNCHANGED storeVars /\ UNCHANGED uiVars /\ UNCHANGED insightVars
    /\ UNCHANGED sessVars

\* ==================================================================== specs
IdlePCM   == [pc |-> "idle", sample |-> 0, int16 |-> 0, decoded |-> 0]

InitWith(blobs, keys, codec) ==
    /\ API_KEY \in keys
    /\ storage \in blobs
    /\ screen = "LOGIN" /\ user = NoUser /\ insight = "" /\ loading = FALSE
    /\ transcripts = <<>> /\ requests = 0
    /\ nextStartTime = 0 /\ inputAudioContext = 0 /\ outputAudioContext = 0
    /\ audioSources = <<>> /\ micStream = 0
    /\ closedCtx = {} /\ stoppedMic = {} /\ currentTime = 0
    /\ lastStop = NoStop
    /\ sessions = [s \in 1..MaxSessions |-> NoSession]
    /\ nSessions = 0 /\ microtasks = <<>> /\ nChunks = 0 /\ nTexts = 0
    /\ pcm \in codec
    /\ lastOp = "init"
    /\ returned = [j \in Jerseys |-> [recs |-> {}, calls |-> 0]]
    /\ uncaught = FALSE

Fresh == {[kind |-> "absent", list |-> <<>>]}

\* The profile store alone: every stored blob, every login input.
InitStore == InitWith(InitialBlobs, {TRUE}, {IdlePCM})
NextStore ==
    \/ \E n \in Names, j \in Jerseys, r \in Roles : LoginClick(n, j, r)
    \/ Logout
SpecStore == InitStore /\ [][NextStore]_vars

\* The insight requester, behind a login.
InitInsight == InitWith(Fresh, BOOLEAN, {IdlePCM})
NextInsight ==
    \/ \E r \in Roles : LoginClick("Smith", "12", r)
    \/ Logout
    \/ GenerateInsight
    \/ \E o \in Outcomes, t \in Generated : InsightResponse(o, t)
SpecInsight == InitInsight /\ [][NextInsight]_vars

\* The codec alone: one sample, encoded and then decoded.
InitPCM == InitWith(Fresh, {TRUE},
                    {[pc |-> "raw", sample |-> n, int16 |-> 0, decoded |-> 0] : n \in Samples})
NextPCM == EncodeSample \/ DecodeSample
SpecPCM == InitPCM /\ [][NextPCM]_vars

\* The audio bridge behind one athlete's login: sessions, audio chunks, teardown.
Sess == 1..MaxSessions
InitVoice == InitWith(Fresh, BOOLEAN, {IdlePCM})
NextVoice ==
    \/ LoginClick("Smith", "12", "ATHLETE")
    \/ ToggleVoice(SchedSessions)
    \/ \E s \in Sess : MicGranted(s)
    \/ \E s \in Sess : MicDenied(s)
    \/ \E s \in Sess : OnOpen(s)
    \/ \E s \in Sess, d \in 1..MaxDur : OnMessage(s, "none", d)
    \/ OnMessageResume
    \/ \E s \in Sess : OnError(s)
    \/ \E s \in Sess : OnClose(s)
    \/ Tick
SpecVoice == InitVoice /\ [][NextVoice]_vars

\* The session life cycle: every way a session ends, the microphone frames, no
\* inbound message.
InitSession == InitWith(Fresh, BOOLEAN, {IdlePCM})
NextSession ==
    \/ LoginClick("Smith", "12", "ATHLETE")
    \/ ToggleVoice(MaxSessions)
    \/ \E s \in Sess : MicGranted(s)
    \/ \E s \in Sess : MicDenied(s)
    \/ \E s \in Sess : OnOpen(s)
    \/ \E s \in Sess : OnAudioProcess(s)
    \/ \E s \in Sess : OnError(s)
    \/ \E s \in Sess : OnClose(s)
SpecSession == InitSession /\ [][NextSession]_vars

\* The view-state controller: every login input, logout, and the session life cycle.
LoginNames   == {"", "Smith"}
LoginJerseys == {"", "12"}
InitScreen == InitWith(Fresh, BOOLEAN, {IdlePCM})
NextScreen ==
    \/ \E n \in LoginNames, j \in LoginJerseys, r \in Roles : LoginClick(n, j, r)
    \/ Logout
    \/ ToggleVoice(MaxSessions)
    \/ \E s \in Sess : MicGranted(s)
    \/ \E s \in Sess : MicDenied(s)
    \/ \E s \in Sess : OnOpen(s)
    \/ \E s \in Sess : OnError(s)
    \/ \E s \in Sess : OnClose(s)
SpecScreen == InitScreen /\ [][NextScreen]_vars

\* The transcript window: sessions that open, and messages that carry a transcription.
InitTranscript == InitWith(Fresh, {TRUE}, {IdlePCM})
NextTranscript ==
    \/ LoginClick("Smith", "12", "ATHLETE")
    \/ ToggleVoice(MaxSessions)
    \/ \E s \in Sess : MicGranted(s)
    \/ \E s \in Sess : OnOpen(s)
    \/ \E s \in Sess, tr \in TrKinds \ {"none"} : OnMessage(s, tr, 0)
    \/ \E s \in Sess : OnClose(s)
SpecTranscript == InitTranscript /\ [][NextTranscript]_vars

\* The audio bridge against the screen: sessions that outlive their stop, with the
\* microphone frames and the inbound audio of every one of them.
InitBridge == InitWith(Fresh, BOOLEAN, {IdlePCM})
NextBridge ==
    \/ LoginClick("Smith", "12", "ATHLETE")
    \/ Logout
    \/ ToggleVoice(MaxSessions)
    \/ \E s \in Sess : MicGranted(s)
    \/ \E s \in Sess : MicDenied(s)
    \/ \E s \in Sess : OnOpen(s)
    \/ \E s \in Sess : OnAudioProcess(s)
    \/ \E s \in Sess, d \in 1..MaxDur : OnMessage(s, "none", d)
    \/ OnMessageResume
    \/ \E s \in Sess : OnError(s)
    \/ \E s \in Sess : OnClose(s)
    \/ Tick
SpecBridge == InitBridge /\ [][NextBridge]_vars

\* The whole program: every handler, every input.
Init == InitWith(InitialBlobs, BOOLEAN, {IdlePCM})
Next ==
    \/ \E n \in Names, j \in Jerseys, r \in Roles : LoginClick(n, j, r)
    \/ Logout
    \/ GenerateInsight
    \/ \E o \in Outcomes, t \in Generated : InsightResponse(o, t)
    \/ ToggleVoice(MaxSessions)
    \/ \E s \in Sess : MicGranted(s)
    \/ \E s \in Sess : MicDenied(s)
    \/ \E s \in Sess : OnOpen(s)
    \/ \E s \in Sess : OnAudioProcess(s)
    \/ \E s \in Sess, tr \in TrKinds, d \in 0..MaxDur : OnMessage(s, tr, d)
    \/ OnMessageResume
    \/ \E s \in Sess : OnError(s)
    \/ \E s \in Sess : OnClose(s)
    \/ Tick
Spec == Init /\ [][Next]_vars

\* =================================================================== claims
EndOf(src) == src.start + src.dur
Pairs == 1..(Len(audioSources) - 1)

InArrivalOrder == \A i \in Pairs : audioSources[i].n < audioSources[i + 1].n
NoOverlap ==
    \A i, j \in 1..Len(audioSources) :
        i < j => EndOf(audioSources[i]) <= audioSources[j].start
NoGap == \A i \in Pairs : ~(audioSources[i + 1].start > EndOf(audioSources[i]))

C3_RoundTripWithinOneStep ==
    pcm.pc = "decoded" =>
        /\ Abs(pcm.decoded - pcm.sample) <= SubSteps
        /\ pcm.sample = FullScale => pcm.decoded = SubSteps * (PCMScale - 1)

\* C4: every login with one jersey is handed the same record, and the persisted
\* list holds exactly one record for each jersey that has logged in.
C4_OneRecordPerJersey ==
    /\ storage.kind = "list" => UniqueJerseys(storage.list)
    /\ \A j \in Jerseys :
          /\ Cardinality(returned[j].recs) <= 1
          /\ returned[j].calls > 0 =>
                /\ storage.kind = "list"
                /\ \E i \in 1..Len(storage.list) :
                      /\ storage.list[i].jersey = j
                      /\ returned[j].recs = {storage.list[i]}

\* A jersey has logged in twice, the second time under another role than the one
\* its record was created with.
C4_Witness ==
    /\ lastOp = "login"
    /\ returned[user.jersey].calls >= 2
    /\ user.role = "ATHLETE" /\ screen = "COACH"

\* C5: stopVoiceLab never throws, and leaves no tracked source and a watermark of 0.
C5_StopNeverThrows ==
    /\ ~lastStop.threw
    /\ lastOp \in StopOps => audioSources = <<>> /\ nextStartTime = 0

\* stopVoiceLab has just run over several sources, one of which had already ended.
C5_Witness ==
    /\ lastOp \in StopOps
    /\ lastStop.sources >= 2 /\ lastStop.ended >= 1

TornDown ==
    /\ audioSources = <<>> /\ nextStartTime = 0
    /\ CtxState(inputAudioContext) # "open" /\ CtxState(outputAudioContext) # "open"
    /\ MicState(micStream) # "live"

\* C6: a missing credential, a denied microphone and a transport error each call
\* onEnd; the first two never connect and never send a frame; and when onEnd has
\* run, the screen is ATHLETE and stopVoiceLab has been executed.
C6_FailuresEndTheSession ==
    /\ \A s \in 1..MaxSessions :
          /\ sessions[s].st = "nokey" => "key" \in sessions[s].ends
          /\ sessions[s].st = "denied" => "mic" \in sessions[s].ends
          /\ sessions[s].st = "errored" => "uplink" \in sessions[s].ends
          /\ sessions[s].st \in {"nokey", "denied"} =>
                /\ ~sessions[s].connected
                /\ sessions[s].processor = 0 /\ sessions[s].sent = 0
    /\ lastOp \in {"onEnd:key", "onEnd:mic", "onEnd:uplink"} =>
          screen = "ATHLETE" /\ TornDown

\* A session whose transport failed after it had sent a frame, and a later one whose
\* microphone was denied, which has just called onEnd.
C6_Witness ==
    /\ lastOp = "onEnd:mic"
    /\ \E s, t \in 1..MaxSessions :
          /\ sessions[s].st = "errored" /\ sessions[s].sent > 0
          /\ sessions[t].st = "denied"

\* C7: the screen changes only from LOGIN to ATHLETE or COACH by a login, between
\* ATHLETE and VOICE by the toggle (or to ATHLETE as the VOICE session ends), and
\* to LOGIN by a logout; an ignored login changes neither screen nor storage.
C7_Step ==
    /\ screen' # screen =>
          \/ screen = "LOGIN" /\ screen' \in {"ATHLETE", "COACH"} /\ lastOp' = "login"
          \/ screen = "ATHLETE" /\ screen' = "VOICE" /\ lastOp' = "toggleVoice:start"
          \/ screen = "VOICE" /\ screen' = "ATHLETE" /\ lastOp' \in StopOps
          \/ screen' = "LOGIN" /\ lastOp' = "logout"
    /\ lastOp' = "login:ignored" => screen' = screen /\ storage' = storage
C7_ScreenTransitions == [][C7_Step]_vars

\* C8: a corrupt or unparseable blob reads as the empty list, and no handler that
\* reads it lets an error out.
C8_CorruptBlobReadsEmpty ==
    /\ ~uncaught
    /\ storage.kind = "invalid" =>
          getStorage(storage) = [threw |-> FALSE, isList |-> TRUE, list |-> <<>>]

\* C9: a request that fails leaves a non-empty fallback string as the insight and
\* the loading flag off, and throws nothing.
C9_FailureFallsBack ==
    /\ ~uncaught
    /\ lastOp \in {"insight:nokey", "insight:notext", "insight:reject"} =>
          /\ insight \in Fallbacks /\ insight # ""
          /\ loading = FALSE

\* The external call has just been rejected while a second request is in flight.
C9_Witness ==
    /\ lastOp = "insight:reject"
    /\ requests > 0
    /\ insight = "Winning is a habit. So is losing. Choose yours."

\* C10: the transcript list holds at most 4 entries, the most recent ones in
\* arrival order, and on the VOICE screen none of them comes from a session
\* earlier than the one just started.
C10_WindowOfThisSession ==
    /\ Len(transcripts) <= Window + 1
    /\ \A i \in 1..Len(transcripts) :
          /\ i > 1 => transcripts[i].t = transcripts[i - 1].t + 1
          /\ screen = "VOICE" => transcripts[i].from = nSessions

\* C11: while the screen is not VOICE and no new session is being started, no
\* microphone stream goes live, no session connects, no frame is sent, no playback
\* source is queued, started or added to the set, and the screen changes only by a
\* login or a logout.
C11_Step ==
    (screen # "VOICE" /\ nSessions' = nSessions) =>
        /\ Len(audioSources') <= Len(audioSources)
        /\ Len(microtasks') <= Len(microtasks)
        /\ \A s \in 1..MaxSessions :
              /\ sessions'[s].sent = sessions[s].sent
              /\ sessions'[s].connected = sessions[s].connected
              /\ sessions'[s].processor = sessions[s].processor
        /\ (micStream' # 0 /\ micStream' \notin stoppedMic')
              => (micStream = micStream' /\ micStream \notin stoppedMic)
        /\ screen' # screen => lastOp' \in {"login", "logout"}
C11_BridgeOnlyOnVoice == [][C11_Step]_vars

====
